---- MODULE Spec2Model ----
(***************************************************************************)
(* A model of the two packages of computational_essays:                    *)
(*   packages/youtube_data_processing.py  the resumable harvest loops       *)
(*       process_channels and fetch_youtube_data over three files (the      *)
(*       roster, the dataset, one video list per channel) and three remote  *)
(*       endpoints (channel statistics, video-id search, video detail);     *)
(*   packages/qgr_data_processing.py      the ingestion of one document     *)
(*       into the index (process_and_insert_documents), once and again,     *)
(*       and the functions around it: clean_description, clean_latex,       *)
(*       generate_document_id, search_documents, group_by_document_id.      *)
(* The harvest loops are modelled step by step: every remote call and every *)
(* file write is one action, and the process may be terminated between any  *)
(* two of them (Crash).                                                     *)
(***************************************************************************)
EXTENDS Integers, Sequences, FiniteSets, TLC

\* ------------------------------------------------------------------ bounds
\* The roster holds NumChannels channels, with distinct channel ids.
NumChannels == 2
\* The remote serves at most MaxPages search pages for one channel.
MaxPages == 2
\* Disruptions of one behaviour: the answers of the remote that are error
\* envelopes (or lack items) and the terminations of the process, together.
MaxDisruptions == 1

Channels == 1..NumChannels

VARIABLES
    \* ---- persisted state (files)
    rosterFile,       \* channels_file_json: [channelID -> flags]
    dataFile,         \* api_data_file: per channel <<>> (no column) or <<cell>>
    listFile,         \* "{channel_id}.json": <<>> (no file) or <<video list>>
    \* ---- the running invocation
    pc,               \* position of the invocation; "idle" when none runs
    fn,               \* "process_channels" or "fetch_youtube_data"
    max_channels,     \* max_channels / maxChannels
    processVideo,     \* processVideo (TRUE for process_channels)
    df,               \* the in-memory DataFrame
    ranked_channels,  \* the in-memory roster
    i,                \* index of the for loop over ranked_channels
    channels_processed, \* channels_processed / channelsProcessed
    video_ids,        \* get_channel_videos_list: ids collected so far
    page,             \* get_channel_videos_list: pages requested so far
    channel_videos,   \* the in-memory video list of channel i
    v,                \* index of the for loop over channel_videos
    all_videos_feched,
    \* ---- history of the behaviour (read by the properties only)
    disruptions,      \* error answers of the remote and terminations so far
    ended,            \* how the last invocation ended, "running" while one runs
    quotaSeen,        \* a remote call of this invocation answered 403/quota
    unsaved,          \* the invocation halted with results not yet written
    work,             \* channels of this invocation that did new work
    reqChannels,      \* channels this invocation issued remote requests for
    loadedFalse,      \* videos of channel i with fetched_video false when loaded
    videoReq,         \* videos of channel i requested in this visit
    unflagged,        \* units fetched by this invocation whose flag is not in a file yet
    lost,             \* the units that were unflagged when the previous invocation ended
    refetched,        \* units of lost fetched again in this invocation
    noneList,         \* channel whose search yielded no list in this invocation
    data,             \* the page the running get_channel_videos_list read last
    \* ---- process_and_insert_documents
    ipc,              \* position of the call; "idle" when none runs
    entry,            \* the entry being ingested: field name -> text or None
    partition_name,
    date_value,
    keywords_value,
    author_value,
    title_value,
    abstract_value,
    category_value,
    docslatex,        \* the chunks the splitter returned
    documentId_value,
    inserted,         \* the documents this call passed to collection.insert
    reported,         \* the documents this call printed as failed (line 188)
    raised,           \* the exception that ended this call, or "none"
    collection,       \* the records the index holds, in the order of their insertion
    ingestions,       \* the calls made for this entry and partition
    \* ---- the functions called on their own
    call,             \* the function called and its arguments; fn "none" before
    result,           \* what the call returned
    previous          \* the call this one follows (its arguments and result), or <<>>

persisted == <<rosterFile, dataFile, listFile>>
params == <<fn, max_channels, processVideo>>
loopVars == <<i, channels_processed>>
listVars == <<video_ids, page, data>>
videoVars == <<channel_videos, v, all_videos_feched>>
visitHistory == <<loadedFalse, videoReq>>
fetchHistory == <<unflagged, lost, refetched>>
memory == <<pc, fn, max_channels, processVideo, df, ranked_channels, i,
            channels_processed, video_ids, page, channel_videos, v,
            all_videos_feched>>
history == <<disruptions, ended, quotaSeen, unsaved, work, reqChannels,
             loadedFalse, videoReq, unflagged, lost, refetched, noneList, data>>
harvest == <<persisted, memory, history>>
values == <<date_value, keywords_value, author_value, title_value,
            abstract_value, category_value>>
call_ == <<entry, partition_name, ingestions>>
index == <<collection, reported, raised>>
ingest == <<ipc, call_, values, docslatex, documentId_value, inserted, index>>
library == <<call, result, previous>>
vars == <<harvest, ingest, library>>

\* ------------------------------------------------------------ the remote API
\* An answer of the channels endpoint or of the videos endpoint: a payload, the
\* 403/quota error envelope, or another error envelope.
Envelopes == {"ok", "quota", "error"}

\* One page of the search endpoint: the kinds of its items and whether it
\* carries a nextPageToken.
PageItems == {<<>>, <<"youtube#video">>, <<"youtube#channel">>,
              <<"youtube#channel", "youtube#video">>}

\* A variant of lines 81-83 that keeps the ids of the last page only.
AppendVideoIdsOfPage(ids, items) ==
    [n \in 1..Cardinality({k \in DOMAIN items : items[k] = "youtube#video"}) |-> n]

\* get_channel_videos_list, lines 81-83: the ids of the items of kind
\* youtube#video are appended; the n-th id collected is named n.
RECURSIVE AppendVideoIds(_, _)
AppendVideoIds(ids, items) ==
    IF items = <<>> THEN ids
    ELSE AppendVideoIds(IF Head(items) = "youtube#video"
                        THEN Append(ids, Len(ids) + 1) ELSE ids,
                        Tail(items))

\* write_channel_video_list_to_file, line 50
VideoList(ids) == [k \in 1..Len(ids) |-> [VideoID |-> ids[k], fetched_video |-> FALSE]]

\* A variant of lines 155-161 / 258-265 that leaves the frame without the cell.
NewCellNot(frame, c, statistics) == frame

\* process_channels lines 155-161, fetch_youtube_data lines 258-265: both
\* branches (empty frame, existing frame) leave the channel's cell holding the
\* statistics and an empty videos list.
NewCell(frame, c, statistics) ==
    [frame EXCEPT ![c] = <<[statistics |-> statistics, videos |-> <<>>]>>]

\* lines 189-191 / 311-313: append the payload to the channel's videos list
AppendVideo(frame, c, payload) ==
    [frame EXCEPT ![c] = <<[frame[c][1] EXCEPT !.videos = Append(@, payload)]>>]

\* A unit of work: one statistics fetch or one video-detail fetch.
StatisticsUnit(c) == <<"statistics", c, 0>>
VideoUnit(c, id) == <<"video", c, id>>

\* Whether the files hold the flag of unit u as true.
Flagged(roster, lists, u) ==
    IF u[1] = "statistics" THEN roster[u[2]].fetched_statistics
    ELSE /\ lists[u[2]] # <<>>
         /\ \E k \in 1..Len(lists[u[2]][1]) :
                /\ lists[u[2]][1][k].VideoID = u[3]
                /\ lists[u[2]][1][k].fetched_video

\* ------------------------------------------------------------------- Init
\* channel_ids_csv_to_json (lines 489-498) writes every flag false; no dataset
\* and no video list exists yet.
Init ==
    /\ rosterFile = [c \in Channels |-> [fetched_videos |-> FALSE, fetched_statistics |-> FALSE]]
    /\ dataFile = [c \in Channels |-> <<>>]
    /\ listFile = [c \in Channels |-> <<>>]
    /\ pc = "idle"
    /\ fn = "process_channels"
    /\ max_channels = 1
    /\ processVideo = TRUE
    /\ df = [c \in Channels |-> <<>>]
    /\ ranked_channels = rosterFile
    /\ i = 1
    /\ channels_processed = 0
    /\ video_ids = <<>>
    /\ page = 0
    /\ data = <<>>
    /\ channel_videos = <<>>
    /\ v = 1
    /\ all_videos_feched = TRUE
    /\ disruptions = 0
    /\ ended = "none"
    /\ quotaSeen = FALSE
    /\ unsaved = FALSE
    /\ work = 0
    /\ reqChannels = {}
    /\ loadedFalse = {}
    /\ videoReq = {}
    /\ unflagged = {}
    /\ lost = {}
    /\ refetched = {}
    /\ noneList = 0
    /\ ipc = "idle"
    /\ entry = <<>>
    /\ date_value = <<>>
    /\ keywords_value = <<>>
    /\ author_value = <<>>
    /\ title_value = <<>>
    /\ abstract_value = <<>>
    /\ category_value = <<>>
    /\ docslatex = <<>>
    /\ inserted = <<>>
    /\ partition_name = "notes"
    /\ documentId_value = <<>>
    /\ reported = <<>>
    /\ raised = "none"
    /\ collection = <<>>
    /\ ingestions = 0
    /\ call = [fn |-> "none"]
    /\ result = <<>>
    /\ previous = <<>>

\* ------------------------------------------------- control between two steps
\* What the interpreter does between two remote calls or file writes touches
\* memory only. It is computed on a record of the loop's local state: pc, i,
\* channels_processed, ranked_channels, video_ids, page, channel_videos, v,
\* all_videos_feched, and of the history: work, loadedFalse, videoReq, ended.
Control ==
    [pc |-> pc, i |-> i, channels_processed |-> channels_processed,
     ranked_channels |-> ranked_channels, video_ids |-> video_ids, page |-> page,
     channel_videos |-> channel_videos, v |-> v,
     all_videos_feched |-> all_videos_feched, work |-> work,
     loadedFalse |-> loadedFalse, videoReq |-> videoReq, ended |-> ended]

\* The invocation returns or breaks out of the loop.
Return(c, how) == [c EXCEPT !.pc = "idle", !.ended = how]

\* The end of one iteration of the for loop. process_channels counts every
\* iteration that reaches line 204; fetch_youtube_data counts at line 333,
\* inside "if not fetched_videos".
NextChannel(c, counted) ==
    [c EXCEPT !.i = @ + 1,
              !.channels_processed = IF counted THEN @ + 1 ELSE @,
              !.pc = "for_channel",
              !.channel_videos = <<>>, !.v = 1, !.video_ids = <<>>, !.page = 0,
              !.loadedFalse = {}, !.videoReq = {}]

\* Whether visiting channel k is new work: its flags are not all true yet.
NewWork(c, k) ==
    IF processVideo
    THEN ~(c.ranked_channels[k].fetched_statistics /\ c.ranked_channels[k].fetched_videos)
    ELSE ~c.ranked_channels[k].fetched_statistics

\* A variant of line 153 / 254 that ignores the flag.
NeedsStatisticsAlways(roster, k) == TRUE

\* A variant of line 153 / 254 that never fetches the statistics.
NeedsStatisticsNever(roster, k) == FALSE

\* line 153 / 254: the statistics are fetched unless the flag is set
NeedsStatistics(roster, k) == ~roster[k].fetched_statistics

\* line 146 / 250: the cap
CapReached(processed) == processed >= max_channels

\* The head of the for loop: lines 145-153, lines 244-254.
ForChannel(c) ==
    IF c.i > NumChannels THEN Return(c, "done")
    ELSE IF CapReached(c.channels_processed) THEN Return(c, "break")
    ELSE [c EXCEPT !.pc = IF NeedsStatistics(c.ranked_channels, c.i)
                          THEN "get_stats" ELSE "check_videos",
                   !.work = IF NewWork(c, c.i) THEN @ + 1 ELSE @]

\* lines 174-181 / 292-301: read the channel's video list and enter the loop
\* over it. The file never holds null (write_channel_video_list_to_file is its
\* only writer), so the "is None" test of line 177 / 297 never succeeds.
LoadVideoList(c, list) ==
    [c EXCEPT !.channel_videos = list, !.v = 1, !.all_videos_feched = TRUE,
              !.loadedFalse = {k \in 1..Len(list) : ~list[k].fetched_video},
              !.videoReq = {}, !.pc = "video_loop"]

\* A variant of line 170 / 284 that never finds the file.
ListFileNeverExists(k) == FALSE

\* line 170 / 284: os.path.exists(f"{channel_id}.json")
ListFileExists(k) == listFile[k] # <<>>

\* lines 169-172 / 278-289: fetch_youtube_data with processVideo false
\* continues; a channel whose fetched_videos flag is true is done; otherwise
\* the list is fetched unless its file exists.
CheckVideos(c) ==
    IF fn = "fetch_youtube_data" /\ ~processVideo THEN NextChannel(c, FALSE)
    ELSE IF c.ranked_channels[c.i].fetched_videos
         THEN NextChannel(c, fn = "process_channels")
    ELSE IF ~ListFileExists(c.i)
         THEN [c EXCEPT !.pc = "get_list", !.video_ids = <<>>, !.page = 0]
    ELSE LoadVideoList(c, listFile[c.i][1])

\* A variant of line 185 / 307 that fetches the first video of a list only.
NeedsVideoFirstOnly(list, k) == ~list[k].fetched_video /\ k = 1

\* A variant of line 185 / 307 that skips the last video of a list.
NeedsVideoButLast(list, k) == ~list[k].fetched_video /\ k < Len(list)

\* line 185 / 307: a video is fetched unless its flag is set
NeedsVideo(list, k) == ~list[k].fetched_video

\* The head of the loop over channel_videos and what follows it: lines 182-185
\* and 199-204, lines 303-307 and 326-335.
VideoLoop(c) ==
    IF c.v > Len(c.channel_videos) THEN
        IF c.all_videos_feched
        THEN [c EXCEPT !.ranked_channels[c.i].fetched_videos = TRUE,
                       !.pc = "videos_dump_roster"]
        ELSE NextChannel(c, TRUE)
    ELSE IF NeedsVideo(c.channel_videos, c.v) THEN [c EXCEPT !.pc = "get_video"]
    ELSE [c EXCEPT !.v = @ + 1]

\* Run on to the next remote call or file write, or to the end.
RECURSIVE Advance(_)
Advance(c) ==
    IF c.pc = "for_channel" THEN Advance(ForChannel(c))
    ELSE IF c.pc = "check_videos" THEN Advance(CheckVideos(c))
    ELSE IF c.pc = "video_loop" THEN Advance(VideoLoop(c))
    ELSE c

\* The invocation is over (return, break, an exception that nothing catches,
\* or the process killed): its memory is gone. pending: the units fetched by
\* it whose flag no file holds.
Stop(how, pending) ==
    /\ pc' = "idle"
    /\ ended' = how
    /\ unsaved' = (how \in {"quota", "TypeError", "KeyError"}
                   /\ (df # dataFile \/ ranked_channels # rosterFile))
    /\ lost' = pending
    /\ unflagged' = {}
    /\ df' = [c \in Channels |-> <<>>]
    /\ ranked_channels' = rosterFile'
    /\ i' = 1
    /\ channels_processed' = 0
    /\ video_ids' = <<>>
    /\ page' = 0
    /\ data' = <<>>
    /\ channel_videos' = <<>>
    /\ v' = 1
    /\ all_videos_feched' = TRUE
    /\ loadedFalse' = {}
    /\ videoReq' = {}
    /\ refetched' = {}
    /\ quotaSeen' = FALSE
    /\ reqChannels' = {}

\* An exception that nothing catches, or the process killed.
Abort(how) ==
    /\ Stop(how, unflagged)
    /\ work' = 0

\* The invocation goes on from control state c, with the units of pending
\* fetched and not flagged in a file.
Continue(c, pending) ==
    LET d == Advance(c) IN
    IF d.pc = "idle" THEN
        /\ Stop(d.ended, pending)
        /\ work' = IF d.ended = "break" THEN d.work ELSE 0
    ELSE
        /\ pc' = d.pc
        /\ ended' = d.ended
        /\ work' = d.work
        /\ ranked_channels' = d.ranked_channels
        /\ i' = d.i
        /\ channels_processed' = d.channels_processed
        /\ video_ids' = d.video_ids
        /\ page' = d.page
        /\ data' = <<>>
        /\ channel_videos' = d.channel_videos
        /\ v' = d.v
        /\ all_videos_feched' = d.all_videos_feched
        /\ loadedFalse' = d.loadedFalse
        /\ videoReq' = d.videoReq
        /\ unflagged' = pending
        /\ UNCHANGED <<df, lost, unsaved, refetched, quotaSeen, reqChannels>>

\* The units of set whose flag the files roster and lists do not hold.
StillUnflagged(set, roster, lists) == {u \in set : ~Flagged(roster, lists, u)}

\* An answer of the remote: an error answer is one of the disruptions.
Answer(r) ==
    /\ r # "ok" => disruptions < MaxDisruptions
    /\ disruptions' = IF r # "ok" THEN disruptions + 1 ELSE disruptions

\* ---------------------------------------------------------------- actions
\* process_channels lines 133-143, fetch_youtube_data lines 225-241: load the
\* dataset and the roster, reset the counter.
StartRun(f, m, withVideo) ==
    /\ pc = "idle"
    /\ fn' = f
    /\ max_channels' = m
    /\ processVideo' = withVideo
    /\ df' = dataFile
    /\ ranked_channels' = rosterFile
    /\ i' = 1
    /\ channels_processed' = 0
    /\ pc' = "for_channel"
    /\ ended' = "running"
    /\ quotaSeen' = FALSE
    /\ unsaved' = FALSE
    /\ work' = 0
    /\ reqChannels' = {}
    /\ unflagged' = {}
    /\ refetched' = {}
    /\ noneList' = 0
    /\ UNCHANGED <<persisted, listVars, videoVars, visitHistory, lost, disruptions>>
    /\ UNCHANGED <<ingest, library>>

\* line 145 / 244: the for loop is entered
EnterLoop ==
    /\ pc = "for_channel"
    /\ UNCHANGED <<persisted, params, disruptions, noneList>>
    /\ Continue(Control, unflagged)
    /\ UNCHANGED <<ingest, library>>

\* get_channel_statistics (lines 25-40) and lines 154-163 / 255-269: the answer,
\* whatever envelope it is, becomes the cell's statistics, and the in-memory
\* flag is set.
GetStats ==
    /\ pc = "get_stats"
    /\ \E r \in Envelopes :
        /\ Answer(r)
        /\ df' = NewCell(df, i, r)
        /\ quotaSeen' = (quotaSeen \/ r = "quota")
    /\ ranked_channels' = [ranked_channels EXCEPT ![i].fetched_statistics = TRUE]
    /\ pc' = "stats_to_json"
    /\ reqChannels' = reqChannels \cup {i}
    /\ unflagged' = unflagged \cup {StatisticsUnit(i)}
    /\ refetched' = refetched \cup ({StatisticsUnit(i)} \cap lost)
    /\ UNCHANGED <<persisted, params, loopVars, listVars, videoVars, visitHistory,
                   lost, ended, unsaved, work, noneList>>
    /\ UNCHANGED <<ingest, library>>

\* line 164 / 271: df.to_json(api_data_file)
StatsToJson ==
    /\ pc = "stats_to_json"
    /\ dataFile' = df
    /\ pc' = "stats_dump_roster"
    /\ UNCHANGED <<rosterFile, listFile, params, df, ranked_channels, loopVars,
                   listVars, videoVars, history>>
    /\ UNCHANGED <<ingest, library>>

\* lines 166-167 / 274-275: json.dump(ranked_channels), then on to line 169
StatsDumpRoster ==
    /\ pc = "stats_dump_roster"
    /\ rosterFile' = ranked_channels
    /\ UNCHANGED <<dataFile, listFile, params, disruptions, noneList>>
    /\ Continue([Control EXCEPT !.pc = "check_videos"],
                StillUnflagged(unflagged, rosterFile', listFile'))
    /\ UNCHANGED <<ingest, library>>

\* get_channel_videos_list, one turn of the while loop (lines 72-92): one page
\* is requested. A 403/quota envelope raises; an answer without 'items' (another
\* error envelope included) returns None, and write_channel_video_list_to_file
\* (line 50) then iterates over None, which raises TypeError; otherwise the
\* video ids are collected and the loop goes on while a nextPageToken comes.
GetListQuota ==
    /\ pc = "get_list"
    /\ Answer("quota")
    /\ UNCHANGED <<persisted, params, noneList>>
    /\ Abort("quota")
    /\ UNCHANGED <<ingest, library>>

GetListNoItems ==
    /\ pc = "get_list"
    /\ Answer("error")
    /\ UNCHANGED <<persisted, params>>
    /\ noneList' = i
    /\ Abort("TypeError")
    /\ UNCHANGED <<ingest, library>>

GetListPage ==
    /\ pc = "get_list"
    /\ \E items \in PageItems, next \in BOOLEAN :
        /\ next => page + 1 < MaxPages
        /\ video_ids' = AppendVideoIds(video_ids, items)
        /\ data' = <<[items |-> items, nextPageToken |-> next]>>
        /\ pc' = IF next THEN "get_list" ELSE "write_list"
    /\ page' = page + 1
    /\ reqChannels' = reqChannels \cup {i}
    /\ UNCHANGED <<persisted, params, df, ranked_channels, loopVars, videoVars,
                   visitHistory, fetchHistory, disruptions, ended, quotaSeen,
                   unsaved, work, noneList>>
    /\ UNCHANGED <<ingest, library>>

\* write_channel_video_list_to_file (lines 43-57), then lines 174-185.
\* get_channel_videos_list has returned: its url and data are gone.
WriteList ==
    /\ pc = "write_list"
    /\ listFile' = [listFile EXCEPT ![i] = <<VideoList(video_ids)>>]
    /\ UNCHANGED <<rosterFile, dataFile, params, disruptions, noneList>>
    /\ Continue(LoadVideoList([Control EXCEPT !.page = 0], VideoList(video_ids)),
                StillUnflagged(unflagged, rosterFile', listFile'))
    /\ UNCHANGED <<ingest, library>>

\* get_channel_video (lines 95-121) and lines 186-191 / 308-313. A 403/quota
\* envelope raises; any other answer (an error envelope too) is never None, so
\* it is appended to the channel's videos list. Reading the cell of a channel
\* the frame does not hold raises KeyError (line 189 / 311).
GetVideo ==
    /\ pc = "get_video"
    /\ UNCHANGED <<persisted, params, noneList>>
    /\ \E r \in Envelopes :
        /\ Answer(r)
        /\ IF r = "quota" THEN Abort("quota")
           ELSE IF df[i] = <<>> THEN Abort("KeyError")
           ELSE
                /\ df' = AppendVideo(df, i, [id |-> channel_videos[v].VideoID, kind |-> r])
                /\ pc' = "video_to_json"
                /\ reqChannels' = reqChannels \cup {i}
                /\ videoReq' = videoReq \cup {v}
                /\ unflagged' = unflagged \cup {VideoUnit(i, channel_videos[v].VideoID)}
                /\ refetched' = refetched \cup
                        ({VideoUnit(i, channel_videos[v].VideoID)} \cap lost)
                /\ UNCHANGED <<ranked_channels, loopVars, listVars, videoVars,
                               loadedFalse, lost, ended, quotaSeen, unsaved, work>>
    /\ UNCHANGED <<ingest, library>>

\* line 192 / 317: df.to_json(api_data_file)
VideoToJson ==
    /\ pc = "video_to_json"
    /\ dataFile' = df
    /\ pc' = "video_dump_list"
    /\ UNCHANGED <<rosterFile, listFile, params, df, ranked_channels, loopVars,
                   listVars, videoVars, history>>
    /\ UNCHANGED <<ingest, library>>

\* A variant of line 194 / 320 that leaves the flag as it is.
MarkVideoNot(list, k) == list

\* line 194 / 320: set the video's flag
MarkVideo(list, k) == [list EXCEPT ![k].fetched_video = TRUE]

\* lines 194-196 / 320-323: set the video's flag and write the video list,
\* then on to the next video
VideoDumpList ==
    /\ pc = "video_dump_list"
    /\ listFile' = [listFile EXCEPT ![i] = <<MarkVideo(channel_videos, v)>>]
    /\ UNCHANGED <<rosterFile, dataFile, params, disruptions, noneList>>
    /\ Continue([Control EXCEPT !.channel_videos = MarkVideo(channel_videos, v),
                                !.v = v + 1, !.pc = "video_loop"],
                StillUnflagged(unflagged, rosterFile', listFile'))
    /\ UNCHANGED <<ingest, library>>

\* lines 200-204 / 328-335: write the roster with fetched_videos set, then on
\* to the next channel
VideosDumpRoster ==
    /\ pc = "videos_dump_roster"
    /\ rosterFile' = ranked_channels
    /\ UNCHANGED <<dataFile, listFile, params, disruptions, noneList>>
    /\ Continue(NextChannel(Control, TRUE),
                StillUnflagged(unflagged, rosterFile', listFile'))
    /\ UNCHANGED <<ingest, library>>

\* The process is terminated between two steps of an invocation.
Crash ==
    /\ pc # "idle"
    /\ disruptions < MaxDisruptions
    /\ disruptions' = disruptions + 1
    /\ UNCHANGED <<persisted, params, noneList>>
    /\ Abort("crash")
    /\ UNCHANGED <<ingest, library>>

\* The values max_channels takes: the smallest cap, and one the roster never
\* reaches.
Caps == {1, NumChannels}

Next ==
    \/ \E m \in Caps : StartRun("process_channels", m, TRUE)
    \/ \E m \in Caps, withVideo \in BOOLEAN : StartRun("fetch_youtube_data", m, withVideo)
    \/ EnterLoop
    \/ GetStats
    \/ StatsToJson
    \/ StatsDumpRoster
    \/ GetListQuota
    \/ GetListNoItems
    \/ GetListPage
    \/ WriteList
    \/ GetVideo
    \/ VideoToJson
    \/ VideoDumpList
    \/ VideosDumpRoster
    \/ Crash

Spec == Init /\ [][Next]_vars

\* ------------------------------------------- harvest against a remote that
\* returns no errors: process_channels is invoked again and again, every answer
\* is a payload, and the process is never terminated.
GetStatsOk == GetStats /\ disruptions' = disruptions

GetVideoOk == GetVideo /\ disruptions' = disruptions

NextProgress ==
    \/ \E m \in Caps : StartRun("process_channels", m, TRUE)
    \/ EnterLoop
    \/ GetStatsOk
    \/ StatsToJson
    \/ StatsDumpRoster
    \/ GetListPage
    \/ WriteList
    \/ GetVideoOk
    \/ VideoToJson
    \/ VideoDumpList
    \/ VideosDumpRoster

\* The interpreter runs every step of an invocation, and the caller invokes
\* process_channels again whenever an invocation has returned.
SpecProgress == Init /\ [][NextProgress]_vars /\ WF_vars(NextProgress)

\* ================================================= qgr_data_processing.py
\* ------------------------------------------------------------------- text
\* A text is a sequence of characters (strings of length one). None is the
\* value of a missing text.
None == <<"None">>

Digits == {"0", "1", "2", "3", "4", "5", "6", "7", "8", "9"}
Letters == {"a", "b", "c", "d", "e", "f", "g", "h", "i", "j", "k", "l", "m",
            "n", "o", "p", "q", "r", "s", "t", "u", "v", "w", "x", "y", "z",
            "A", "B", "C", "D", "E", "F", "G", "H", "I", "J", "K", "L", "M",
            "N", "O", "P", "Q", "R", "S", "T", "U", "V", "W", "X", "Y", "Z"}
\* The characters \S does not match.
Whitespace == {" ", "\t", "\n", "\r"}

IsDigit(ch) == ch \in Digits
NonSpace(ch) == ch \notin Whitespace
\* line 60: the characters outside [^a-zA-Z0-9 \n\.]
Allowed(ch) == ch \in Letters \cup Digits \cup {" ", "\n", "."}

\* s[:k]
Slice(s, k) == SubSeq(s, 1, IF k < Len(s) THEN k ELSE Len(s))

\* Whether word occurs in s at position p.
At(s, p, word) ==
    /\ p + Len(word) - 1 <= Len(s)
    /\ SubSeq(s, p, p + Len(word) - 1) = word

\* The character classes \d and \S.
InClass(class, ch) == IF class = "\\d" THEN IsDigit(ch) ELSE NonSpace(ch)

\* The end of the longest run of characters of class that starts at p
\* (p - 1 when s[p] is not of the class).
RunEnd(s, p, class) ==
    (CHOOSE j \in p..(Len(s) + 1) :
        /\ j = Len(s) + 1 \/ ~InClass(class, s[j])
        /\ \A m \in p..(j - 1) : InClass(class, s[m])) - 1

\* line 54, http\S+|www.\S+ : the end of the match that starts at p, 0 if
\* there is none. The dot matches any character but a newline.
UrlEnd(s, p) ==
    IF /\ At(s, p, <<"h", "t", "t", "p">>)
       /\ p + 4 <= Len(s)
       /\ NonSpace(s[p + 4])
    THEN RunEnd(s, p + 4, "\\S")
    ELSE IF /\ At(s, p, <<"w", "w", "w">>)
            /\ p + 4 <= Len(s)
            /\ s[p + 3] # "\n"
            /\ NonSpace(s[p + 4])
    THEN RunEnd(s, p + 4, "\\S")
    ELSE 0

\* line 56, \d+:\d+:\d+|\d+:\d+ : the end of the match that starts at p, 0 if
\* there is none.
TimestampEnd(s, p) ==
    IF ~IsDigit(s[p]) THEN 0
    ELSE LET a == RunEnd(s, p, "\\d") IN
         IF ~(a + 2 <= Len(s) /\ s[a + 1] = ":" /\ IsDigit(s[a + 2])) THEN 0
         ELSE LET b == RunEnd(s, a + 2, "\\d") IN
              IF b + 2 <= Len(s) /\ s[b + 1] = ":" /\ IsDigit(s[b + 2])
              THEN RunEnd(s, b + 2, "\\d")
              ELSE b

\* line 58: the threshold of \S{30,}
LongSequence == 30

\* line 58, \S{30,} : the end of the match that starts at p, 0 if there is none
LongSequenceEnd(s, p) ==
    IF /\ p + LongSequence - 1 <= Len(s)
       /\ \A m \in p..(p + LongSequence - 1) : NonSpace(s[m])
    THEN RunEnd(s, p, "\\S")
    ELSE 0

\* The end of the match of pattern that starts at p, 0 if there is none.
MatchEnd(pattern, s, p) ==
    CASE pattern = "url" -> UrlEnd(s, p)
      [] pattern = "timestamp" -> TimestampEnd(s, p)
      [] pattern = "sequence" -> LongSequenceEnd(s, p)

\* re.sub(pattern, '', s) from position p on: the leftmost match is removed,
\* and the search goes on after its end.
RECURSIVE Remove(_, _, _)
Remove(s, p, pattern) ==
    LET j == CHOOSE q \in p..(Len(s) + 1) :
                /\ q = Len(s) + 1 \/ MatchEnd(pattern, s, q) # 0
                /\ \A m \in p..(q - 1) : MatchEnd(pattern, s, m) = 0
    IN IF j > Len(s) THEN SubSeq(s, p, Len(s))
       ELSE SubSeq(s, p, j - 1) \o Remove(s, MatchEnd(pattern, s, j) + 1, pattern)

\* re.sub(ch+, ch, s): of a run of ch, the first one is kept.
Squeeze(s, ch) ==
    LET marked == [k \in 1..Len(s) |-> <<s[k], k > 1 /\ s[k] = ch /\ s[k - 1] = ch>>]
        Kept(m) == ~m[2]
        kept == SelectSeq(marked, Kept)
    IN [k \in 1..Len(kept) |-> kept[k][1]]

\* clean_description, lines 50-65
clean_description(description) ==
    IF description = None THEN <<>>
    ELSE LET urls == Remove(description, 1, "url")
             timestamps == Remove(urls, 1, "timestamp")
             sequences == Remove(timestamps, 1, "sequence")
             special == SelectSeq(sequences, Allowed)
             newlines == Squeeze(special, "\n")
         IN Squeeze(newlines, " ")

\* A character outside ASCII is written as the name of its code point. Of the
\* two the inputs use, the first lies in the range of line 68, the second
\* outside of it.
Bullet == "U+2022"
Accent == "U+00E9"
InRange(ch) == ch = Bullet
Ascii(ch) == ch \notin {Bullet, Accent}
OutOfRange(ch) == ~InRange(ch)

\* What re.sub raises when its string is None.
TypeError == <<"TypeError">>

\* clean_latex, lines 67-72; no test of None comes before the first re.sub.
clean_latex(latex_content) ==
    IF latex_content = None THEN TypeError
    ELSE LET range == SelectSeq(latex_content, OutOfRange)
             ascii == SelectSeq(range, Ascii)
         IN Squeeze(ascii, " ")

\* line 118: the string that is hashed
combined_str(title, authors, date) ==
    title \o <<"-">> \o authors \o <<"-">> \o date

\* hashlib.sha256(...).hexdigest(): a digest stands for the string it is the
\* digest of; two digests are equal when the strings are.
sha256(text) == <<"sha256", text>>

\* A variant of lines 117-119 that leaves the date out of the string.
generate_document_id_undated(title, authors, date) ==
    sha256(title \o <<"-">> \o authors)

\* generate_document_id, lines 117-119
generate_document_id(title, authors, date) ==
    sha256(combined_str(title, authors, date))

\* process_and_insert_documents, lines 125-152: the lengths over which a value
\* is cleaned, and the lengths the values are cut to.
DateCleanOver == 1000
DateMax == 250
KeywordsCleanOver == 1000
KeywordsMax == 1004
AuthorCleanOver == 1000
AuthorMax == 1000
TitleCleanOver == 1000
TitleMax == 900
AbstractCleanOver == 4000
AbstractMax == 4000
CategoryCleanOver == 1000
CategoryMax == 250
\* line 160: the chunk size given to the splitter; line 165: the length over
\* which a chunk is cleaned; line 168: the length given to convertToVector.
ChunkSize == 512
ChunkCleanOver == 512
VectorLength == 512

\* The sentinel of lines 124-149.
Unknown == <<"U", "n", "k", "n", "o", "w", "n">>

\* entry.get(key, "")
Field(e, key) == IF key \in DOMAIN e THEN e[key] ELSE <<>>

\* x or "Unknown": None and the empty text are falsy
OrUnknown(x) == IF x = None \/ x = <<>> THEN Unknown ELSE x

\* lines 125-127 and their five likes: clean when longer than over, then cut
Bounded(x, over, max) ==
    Slice(IF Len(x) > over THEN clean_description(x) ELSE x, max)

\* ---------------------------------------------------------- input entries
\* The long inputs are Excess characters longer than the length over which
\* the field is cleaned.
Excess == 5
\* The splitter returns at most MaxChunks chunks.
MaxChunks == 2

Keys == {"date", "keywords", "authors", "title", "abstract", "category"}

CleanOver(key) ==
    CASE key = "date" -> DateCleanOver
      [] key = "keywords" -> KeywordsCleanOver
      [] key = "authors" -> AuthorCleanOver
      [] key = "title" -> TitleCleanOver
      [] key = "abstract" -> AbstractCleanOver
      [] key = "category" -> CategoryCleanOver

\* A short text.
Short == <<"Q", "G", "R">>
\* n characters of plain words, which cleaning leaves as they are.
Words(n) == [k \in 1..n |-> IF k % 5 = 0 THEN " " ELSE "a"]
\* A link, a timestamp, special characters, repeated spaces and newlines, and
\* a long sequence without a space.
Noise ==
    <<"h", "t", "t", "p", ":", "/", "/", "a", ".", "b", " ", "1", ":", "2", "3",
      " ", "#", "#", " ", " ", "\n", "\n">> \o [k \in 1..31 |-> "x"] \o <<" ">>
\* n characters that start with Noise.
Noisy(n) == Noise \o Words(n - Len(Noise))

\* The ways a field of the entry comes: the key is absent, its value is None,
\* empty, short, or longer than the length over which it is cleaned.
Kinds == {"absent", "none", "empty", "short", "long", "noisy"}

Input(kind, over) ==
    CASE kind = "none" -> None
      [] kind = "empty" -> <<>>
      [] kind = "short" -> Short
      [] kind = "long" -> Words(over + Excess)
      [] kind = "noisy" -> Noisy(over + Excess)

Entry(kinds) ==
    [key \in {k \in Keys : kinds[k] # "absent"} |-> Input(kinds[key], CleanOver(key))]

\* Every field of the same kind, or one field of some kind and the others short.
Entries ==
    {Entry([k \in Keys |-> kind]) : kind \in Kinds}
    \cup {Entry([k \in Keys |-> IF k = key THEN kind ELSE "short"]) :
            key \in Keys, kind \in Kinds}

\* The content of an entry: a short text, a text with characters outside
\* ASCII, the empty text or None.
Contents == { Short, <<"a", Bullet, " ", " ", Accent, "b">>, <<>>, None }

\* Contents longer than a chunk: a note of plain words, a noisy paper.
LongContents ==
    { <<Words(ChunkSize + Excess), "notes">>,
      <<Noisy(ChunkSize + Excess), "papers">> }

WithContent(e, content) == e @@ ("content" :> content)

Partitions == {"notes", "papers"}

\* The calls: every entry with a short content for the partition "notes"; the
\* entry of short fields with every content, and without the key, for every
\* partition, and with a long content.
Calls ==
    { <<WithContent(e, Short), "notes">> : e \in Entries }
    \cup { <<WithContent(Entry([k \in Keys |-> "short"]), content), p>> :
            content \in Contents, p \in Partitions }
    \cup { <<WithContent(Entry([k \in Keys |-> "short"]), c[1]), c[2]>> :
            c \in LongContents }
    \cup { <<Entry([k \in Keys |-> "short"]), p>> : p \in Partitions }

\* ---------------------------------------- process_and_insert_documents
\* A first call for an entry and a partition, on an index that holds nothing
\* (line 123).
StartIngest(e, p) ==
    /\ ipc = "idle"
    /\ ingestions = 0
    /\ entry' = e
    /\ partition_name' = p
    /\ ipc' = "date"
    /\ date_value' = <<>>
    /\ keywords_value' = <<>>
    /\ author_value' = <<>>
    /\ title_value' = <<>>
    /\ abstract_value' = <<>>
    /\ category_value' = <<>>
    /\ docslatex' = <<>>
    /\ documentId_value' = <<>>
    /\ inserted' = <<>>
    /\ reported' = <<>>
    /\ raised' = "none"
    /\ collection' = <<>>
    /\ ingestions' = 1
    /\ UNCHANGED <<harvest, library>>

\* The second call for the same entry and partition, on the index as the
\* first call left it, after a first call that returned with every chunk
\* stored (line 123).
ReIngest ==
    /\ ipc = "idle"
    /\ ingestions = 1
    /\ raised = "none"
    /\ reported = <<>>
    /\ ingestions' = 2
    /\ ipc' = "date"
    /\ date_value' = <<>>
    /\ keywords_value' = <<>>
    /\ author_value' = <<>>
    /\ title_value' = <<>>
    /\ abstract_value' = <<>>
    /\ category_value' = <<>>
    /\ documentId_value' = <<>>
    /\ inserted' = <<>>
    /\ reported' = <<>>
    /\ raised' = "none"
    /\ UNCHANGED <<harvest, library, entry, partition_name, docslatex, collection>>

\* lines 124-127
DateValue ==
    /\ ipc = "date"
    /\ date_value' = Bounded(OrUnknown(Field(entry, "date")), DateCleanOver, DateMax)
    /\ ipc' = "keywords"
    /\ UNCHANGED <<harvest, library, call_, keywords_value, author_value, title_value,
                   abstract_value, category_value, docslatex, documentId_value,
                   inserted, index>>

\* lines 129-132
KeywordsValue ==
    /\ ipc = "keywords"
    /\ keywords_value' =
            Bounded(OrUnknown(Field(entry, "keywords")), KeywordsCleanOver, KeywordsMax)
    /\ ipc' = "authors"
    /\ UNCHANGED <<harvest, library, call_, date_value, author_value, title_value,
                   abstract_value, category_value, docslatex, documentId_value,
                   inserted, index>>

\* lines 134-137
AuthorValue ==
    /\ ipc = "authors"
    /\ author_value' = Bounded(OrUnknown(Field(entry, "authors")), AuthorCleanOver, AuthorMax)
    /\ ipc' = "title"
    /\ UNCHANGED <<harvest, library, call_, date_value, keywords_value, title_value,
                   abstract_value, category_value, docslatex, documentId_value,
                   inserted, index>>

\* lines 139-142
TitleValue ==
    /\ ipc = "title"
    /\ title_value' = Bounded(OrUnknown(Field(entry, "title")), TitleCleanOver, TitleMax)
    /\ ipc' = "abstract"
    /\ UNCHANGED <<harvest, library, call_, date_value, keywords_value, author_value,
                   abstract_value, category_value, docslatex, documentId_value,
                   inserted, index>>

\* lines 144-147
AbstractValue ==
    /\ ipc = "abstract"
    /\ abstract_value' =
            Bounded(OrUnknown(Field(entry, "abstract")), AbstractCleanOver, AbstractMax)
    /\ ipc' = "category"
    /\ UNCHANGED <<harvest, library, call_, date_value, keywords_value, author_value,
                   title_value, category_value, docslatex, documentId_value,
                   inserted, index>>

\* lines 149-152
CategoryValue ==
    /\ ipc = "category"
    /\ category_value' =
            Bounded(OrUnknown(Field(entry, "category")), CategoryCleanOver, CategoryMax)
    /\ ipc' = "content"
    /\ UNCHANGED <<harvest, library, call_, date_value, keywords_value, author_value,
                   title_value, abstract_value, docslatex, documentId_value,
                   inserted, index>>

\* What entry["content"] raises when the entry has no such key.
KeyError == <<"KeyError">>

\* lines 154-159: the content of the entry, cleaned for the partition
Content(e, p) ==
    IF "content" \notin DOMAIN e THEN KeyError
    ELSE IF p = "notes" THEN clean_description(e["content"])
    ELSE clean_latex(e["content"])

\* lines 154-159: an exception ends the call; otherwise the content goes to the
\* splitter.
CleanContent ==
    /\ ipc = "content"
    /\ LET content == Content(entry, partition_name)
       IN IF content \in {KeyError, TypeError}
          THEN ipc' = "idle" /\ raised' = content[1]
          ELSE ipc' = "split" /\ raised' = raised
    /\ UNCHANGED <<harvest, library, call_, values, docslatex, documentId_value,
                   inserted, reported, collection>>

\* The numbers of chunks the splitter may return (splitText, lines 76-85, over
\* LatexTextSplitter): none for an empty content, and for the content it has
\* split in the first call the same chunks again.
ChunkCounts(content, calls, before) ==
    IF content = <<>> THEN {0}
    ELSE IF calls > 1 THEN {Len(before)}
    ELSE 0..MaxChunks

\* The texts a chunk of a content may have: the content when it fits the chunk
\* size; of a longer content a piece of the chunk size, or more than that when
\* the splitter finds no place to cut.
ChunkTexts(content) ==
    IF Len(content) <= ChunkSize THEN {content}
    ELSE {Slice(content, ChunkSize), content}

\* A variant of line 162 that takes the fields of the entry as they came.
DocumentIdOfEntry ==
    generate_document_id(Field(entry, "title"), Field(entry, "authors"),
                         Field(entry, "date"))

\* line 162
DocumentId == generate_document_id(title_value, author_value, date_value)

\* lines 160-164: the content is split and the identity computed. With no
\* chunk the loop of line 164 is over at once. The loop treats every chunk on
\* its own, so the chunks of one call carry the same text.
SplitContent ==
    /\ ipc = "split"
    /\ \E n \in ChunkCounts(Content(entry, partition_name), ingestions, docslatex),
          text \in ChunkTexts(Content(entry, partition_name)) :
        /\ docslatex' = [k \in 1..n |-> [page_content |-> text]]
        /\ ingestions > 1 => docslatex' = docslatex
        /\ ipc' = IF n = 0 THEN "idle" ELSE "insert"
    /\ documentId_value' = DocumentId
    /\ UNCHANGED <<harvest, library, call_, values, inserted, index>>

\* model.encode and the normalisation (lines 43-46): an embedding stands for
\* the text it is the embedding of.
encode(sentence) == <<"embedding", sentence>>

\* convertToVector, lines 38-48
convertToVector(sentence, length) == encode(Slice(sentence, length))

\* lines 165-168: a chunk longer than 512 characters is cleaned, not cut
EmbeddingElement(chunk) ==
    IF Len(chunk.page_content) > ChunkCleanOver
    THEN clean_description(chunk.page_content)
    ELSE chunk.page_content

\* lines 172-182: the document passed to collection.insert; chunk is the chunk
\* it was made of.
Doc(chunk) ==
    [documentId |-> documentId_value, title |-> title_value, date |-> date_value,
     authors |-> author_value, abstract |-> abstract_value,
     keywords |-> keywords_value, category |-> category_value,
     content |-> EmbeddingElement(chunk),
     content_vector |-> convertToVector(EmbeddingElement(chunk), VectorLength),
     chunk |-> chunk]

\* What collection.insert may do with a document: store it and return a
\* result, return a falsy result (the failure lines 186-188 look for), or raise
\* (an exception of the client; nothing in the function catches it).
Outcomes == {"stored", "falsy", "raise"}

\* lines 164-188: one turn of the loop over the chunks. A falsy result is
\* printed and the loop goes on; an exception ends the call.
InsertChunk(outcome) ==
    /\ ipc = "insert"
    /\ LET doc == Doc(docslatex[Len(inserted) + 1])
       IN /\ inserted' = Append(inserted, doc)
          /\ collection' =
                IF outcome = "stored"
                THEN Append(collection, [partition |-> partition_name, doc |-> doc])
                ELSE collection
          /\ reported' = IF outcome = "falsy" THEN Append(reported, doc) ELSE reported
    /\ raised' = IF outcome = "raise" THEN "insert" ELSE raised
    /\ ipc' = IF outcome = "raise" \/ Len(inserted) + 1 = Len(docslatex)
              THEN "idle" ELSE "insert"
    /\ UNCHANGED <<harvest, library, call_, values, docslatex, documentId_value>>

NextIngest ==
    \/ ingestions = 0 /\ \E c \in Calls : StartIngest(c[1], c[2])
    \/ ReIngest
    \/ DateValue
    \/ KeywordsValue
    \/ AuthorValue
    \/ TitleValue
    \/ AbstractValue
    \/ CategoryValue
    \/ CleanContent
    \/ SplitContent
    \/ \E outcome \in Outcomes : InsertChunk(outcome)

SpecIngest == Init /\ [][NextIngest]_vars

\* ------------------------------------------ the functions called on their own
\* Calls of clean_description, clean_latex, generate_document_id,
\* search_documents and group_by_document_id with arguments drawn from bounded
\* sets. A behaviour makes one call, or two calls in a row where a claim is
\* about two: generate_document_id twice, group_by_document_id on what
\* search_documents returned.

\* The texts given to clean_description: up to MaxTokens pieces in a row.
MaxTokens == 3
HalfRun == [k \in 1..(LongSequence \div 2) |-> "a"]
Tokens ==
    { <<"h", "t", "t", "p">>, <<"w", "w", "w">>, HalfRun, <<"1", ":", "2", "3">>,
      <<"#">>, <<"\t">>, <<" ">>, <<"x">> }
RECURSIVE Joined(_)
Joined(pieces) ==
    IF pieces = <<>> THEN <<>> ELSE Head(pieces) \o Joined(Tail(pieces))
Texts ==
    { Joined(pieces) : pieces \in UNION { [1..n -> Tokens] : n \in 0..MaxTokens } }

\* The texts given to clean_latex.
LatexTexts ==
    { <<>>, Short, <<"a", Bullet, " ", " ", Accent, Accent, "b">>, <<Bullet, Accent>> }

\* The field values given to generate_document_id.
IdTexts == { <<>>, <<"-">>, <<"a">>, <<"b">>, <<"a", "-", "b">> }

\* The hits an index search returns. The records of one document share the
\* fields its documentId is made of; the other fields are those of the record.
MaxHits == 3
DocumentIds == {"d1", "d2"}
Records == {1, 2}
Scores == {1, 2, 3}
Entity(id, n) ==
    [documentId |-> id, title |-> <<"title", id>>, date |-> <<"date", id>>,
     authors |-> <<"authors", id>>, abstract |-> <<"abstract", id, n>>,
     keywords |-> <<"keywords", id, n>>, category |-> <<"category", id, n>>,
     content |-> <<"content", id, n>>]
Hits ==
    { [entity |-> Entity(id, n), score |-> x] :
        id \in DocumentIds, n \in Records, x \in Scores }
HitLists == UNION { [1..n -> Hits] : n \in 0..MaxHits }

\* sorted(results[0], key=lambda x: x.score, reverse=True), line 237: the place
\* of hit k is after every hit of a higher score and after the hits of the same
\* score that come before it (the sort is stable).
Place(hits, k) ==
    1 + Cardinality({ j \in DOMAIN hits : hits[j].score > hits[k].score })
      + Cardinality({ j \in DOMAIN hits : j < k /\ hits[j].score = hits[k].score })

\* A variant of lines 236-238 that returns the hits as the index gave them.
search_documents_unsorted(hits) == hits

\* search_documents, lines 202-238, of what collection.search returned for the
\* query (results[0], at most limit hits).
search_documents(hits) ==
    [p \in 1..Len(hits) |-> hits[CHOOSE k \in DOMAIN hits : Place(hits, k) = p]]

\* lines 245-254: the group a first hit opens
NewGroup(hit) ==
    [title |-> hit.entity.title, date |-> hit.entity.date,
     authors |-> hit.entity.authors, abstract |-> hit.entity.abstract,
     keywords |-> hit.entity.keywords, category |-> hit.entity.category,
     contents |-> <<hit.entity.content>>, score |-> hit.score]

\* A variant of line 256 that puts the content in front.
PrependContent(group, hit) ==
    [group EXCEPT !.contents = <<hit.entity.content>> \o @]

\* line 256
AppendContent(group, hit) ==
    [group EXCEPT !.contents = Append(@, hit.entity.content)]

\* lines 243-256: the loop over the hits, from hit k on
RECURSIVE GroupFrom(_, _, _)
GroupFrom(results, k, grouped_results) ==
    IF k > Len(results) THEN grouped_results
    ELSE LET hit == results[k]
             document_id == hit.entity.documentId
         IN GroupFrom(results, k + 1,
                IF document_id \notin DOMAIN grouped_results
                THEN grouped_results @@ (document_id :> NewGroup(hit))
                ELSE [grouped_results EXCEPT
                        ![document_id] = AppendContent(@, hit)])

\* group_by_document_id, lines 241-259
group_by_document_id(results) == GroupFrom(results, 1, <<>>)

CleanDescription(description) ==
    /\ call.fn = "none"
    /\ call' = [fn |-> "clean_description", description |-> description]
    /\ result' = clean_description(description)
    /\ UNCHANGED <<harvest, ingest, previous>>

CleanLatex(latex_content) ==
    /\ call.fn = "none"
    /\ call' = [fn |-> "clean_latex", latex_content |-> latex_content]
    /\ result' = clean_latex(latex_content)
    /\ UNCHANGED <<harvest, ingest, previous>>

\* A first call, or a second one after a first.
GenerateDocumentId(title, authors, date) ==
    /\ \/ call.fn = "none"
       \/ call.fn = "generate_document_id" /\ previous = <<>>
    /\ call' = [fn |-> "generate_document_id", title |-> title,
                authors |-> authors, date |-> date]
    /\ result' = generate_document_id(title, authors, date)
    /\ previous' = IF call.fn = "none" THEN <<>>
                   ELSE <<[call |-> call, result |-> result]>>
    /\ UNCHANGED <<harvest, ingest>>

SearchDocuments(hits) ==
    /\ call.fn = "none"
    /\ call' = [fn |-> "search_documents", results |-> hits]
    /\ result' = search_documents(hits)
    /\ UNCHANGED <<harvest, ingest, previous>>

\* group_by_document_id on any list of hits
GroupByDocumentId(hits) ==
    /\ call.fn = "none"
    /\ call' = [fn |-> "group_by_document_id", results |-> hits]
    /\ result' = group_by_document_id(hits)
    /\ UNCHANGED <<harvest, ingest, previous>>

\* group_by_document_id on what search_documents returned
GroupSearchResults ==
    /\ call.fn = "search_documents"
    /\ call' = [fn |-> "group_by_document_id", results |-> result]
    /\ result' = group_by_document_id(result)
    /\ previous' = <<[call |-> call, result |-> result]>>
    /\ UNCHANGED <<harvest, ingest>>

\* The arguments are drawn where a call can be made.
NextLibrary ==
    \/ call.fn = "none" /\ \E description \in Texts \cup {None} :
                                CleanDescription(description)
    \/ call.fn = "none" /\ \E latex_content \in LatexTexts \cup {None} :
                                CleanLatex(latex_content)
    \/ \E title, authors, date \in IdTexts : GenerateDocumentId(title, authors, date)
    \/ call.fn = "none" /\ \E hits \in HitLists : SearchDocuments(hits)
    \/ call.fn = "none" /\ \E hits \in HitLists : GroupByDocumentId(hits)
    \/ GroupSearchResults

SpecLibrary == Init /\ [][NextLibrary]_vars

\* ------------------------------------------------------------- properties
\* The positions from which the next step is a remote request.
RequestSteps == {"get_stats", "get_list", "get_video"}

\* The flags of the video list a file holds, by position.
VideoFlags(file) == IF file = <<>> THEN <<>>
                    ELSE [k \in 1..Len(file[1]) |-> file[1][k].fetched_video]

\* Claim C1 (harvest resumability): a statistics request is issued only for a
\* channel whose persisted fetched_statistics flag is false, a video-detail
\* request only for a video whose persisted fetched_video flag is false, and
\* when the loop over a channel's video list is over, every video that was
\* loaded with fetched_video false has been requested.
C1_Resumable ==
    /\ pc = "get_stats" => ~rosterFile[i].fetched_statistics
    /\ pc = "get_video" => /\ ~rosterFile[i].fetched_videos
                           /\ listFile[i] # <<>>
                           /\ ~listFile[i][1][v].fetched_video
    /\ pc = "videos_dump_roster" => loadedFalse \subseteq videoReq

\* C1, its case: a channel is resumed; one of its videos was flagged when
\* the list was loaded and is skipped, the others have been requested.
C1_Witness ==
    /\ pc = "videos_dump_roster"
    /\ loadedFalse # {}
    /\ Cardinality(loadedFalse) < Len(channel_videos)
    /\ videoReq = loadedFalse

\* Claim C2 (quota exhaustion stops the loop immediately): once a remote call
\* of an invocation answered 403/quota, no step of that invocation is a remote
\* request and no step changes the dataset, the roster or a video list.
C2_QuotaStopsRun ==
    [][quotaSeen => (pc \notin RequestSteps /\ UNCHANGED persisted)]_vars

\* Claim C3 (quota-exhaustion consistency): an invocation that received a
\* 403/quota answer has halted, it halted with every earlier result written,
\* and no persisted flag is true over a quota envelope: a channel with
\* fetched_statistics true has a cell whose statistics are not the envelope,
\* and as many videos are flagged as the cell holds payloads that are not the
\* envelope, at most.
C3_QuotaConsistency ==
    /\ ~(quotaSeen /\ pc # "idle")
    /\ ended = "quota" => ~unsaved
    /\ \A c \in Channels :
        /\ rosterFile[c].fetched_statistics =>
                dataFile[c] # <<>> /\ dataFile[c][1].statistics # "quota"
        /\ \A k \in DOMAIN VideoFlags(listFile[c]) :
                VideoFlags(listFile[c])[k] =>
                    /\ dataFile[c] # <<>>
                    /\ \E n \in DOMAIN dataFile[c][1].videos :
                        /\ dataFile[c][1].videos[n].id = listFile[c][1][k].VideoID
                        /\ dataFile[c][1].videos[n].kind # "quota"

\* Claim C4 (monotonic flags): no step writes back as false a persisted
\* fetched_statistics, fetched_videos or fetched_video flag that is true.
C4_MonotonicFlags ==
    [][\A c \in Channels :
        /\ rosterFile'[c] # rosterFile[c] =>
            /\ rosterFile[c].fetched_statistics => rosterFile'[c].fetched_statistics
            /\ rosterFile[c].fetched_videos => rosterFile'[c].fetched_videos
        /\ listFile'[c] # listFile[c] =>
            \A k \in DOMAIN VideoFlags(listFile[c]) :
                VideoFlags(listFile[c])[k] =>
                    /\ k \in DOMAIN VideoFlags(listFile'[c])
                    /\ VideoFlags(listFile'[c])[k]]_vars

\* C4, its case: after an invocation that was cut between a fetch and its flag,
\* a video list that holds a true flag is about to be written again.
C4_Witness ==
    /\ pc = "video_dump_list"
    /\ v > 1
    /\ listFile[i] # <<>>
    /\ listFile[i][1][1].fetched_video
    /\ rosterFile[i].fetched_statistics
    /\ lost # {}

\* Claim C5 (crash tolerance): whenever an invocation ends, at most one fetched
\* unit lacks its flag in the files; the next invocation requests only units
\* whose persisted flag is false, and the units it fetches again are among
\* those the previous one left without a flag: at most one.
C5_CrashTolerance ==
    /\ Cardinality(unflagged) <= 1
    /\ Cardinality(lost) <= 1
    /\ refetched \subseteq lost
    /\ pc = "get_stats" => ~Flagged(rosterFile, listFile, StatisticsUnit(i))
    /\ pc = "get_video" =>
            ~Flagged(rosterFile, listFile, VideoUnit(i, channel_videos[v].VideoID))

\* C5, its case: the process was terminated between a video fetch and the
\* write of its flag, and the next invocation has fetched that video again.
C5_Witness ==
    /\ ended = "running"
    /\ \E u \in refetched : u[1] = "video"

\* The step that writes the dataset after a statistics fetch.
StatisticsAssigned == pc = "stats_to_json" /\ pc' = "stats_dump_roster"

\* The videos list of a channel's cell in the dataset file.
Videos(file, c) == IF file[c] = <<>> THEN <<>> ELSE file[c][1].videos

\* Videos lists are append-only, and fixed once fetched_videos is true.
VideosOnlyGrow ==
    \A c \in Channels :
        /\ Len(Videos(dataFile, c)) <= Len(Videos(dataFile', c))
        /\ SubSeq(Videos(dataFile', c), 1, Len(Videos(dataFile, c))) = Videos(dataFile, c)
        /\ rosterFile[c].fetched_videos => dataFile'[c] = dataFile[c]

\* Claim C6 as stated (harvest dataset invariant): the statistics of a channel
\* are assigned exactly once, that is, only to a channel with no cell in the
\* dataset yet; the videos list only grows and is fixed once fetched_videos is
\* true.
C6_AssignedOnce ==
    [][(StatisticsAssigned => dataFile[i] = <<>>) /\ VideosOnlyGrow]_vars

\* Claim C6 as amended: the statistics of a channel are assigned only while its
\* persisted fetched_statistics flag is false, and assigned over an existing
\* cell only when that cell holds no video (an earlier invocation was
\* terminated between the dataset write and the roster write); the videos list
\* only grows and is fixed once fetched_videos is true.
C6_AssignedUntilFlagged ==
    [][/\ StatisticsAssigned =>
            /\ ~rosterFile[i].fetched_statistics
            /\ Videos(dataFile, i) = <<>>
       /\ VideosOnlyGrow]_vars

\* C6, its case: the statistics of a channel whose cell is in the dataset have
\* been fetched again and are about to be assigned a second time.
C6_Witness ==
    /\ pc = "stats_to_json"
    /\ dataFile[i] # <<>>
    /\ StatisticsUnit(i) \in refetched

\* Claim C7 (per-run cap): an invocation breaks out of the loop only when
\* max_channels channels did new work in it, and no more than max_channels
\* channels do new work in one invocation; channels whose flags are all true do
\* not count.
C7_CapCountsNewWork ==
    /\ ended = "break" => work >= max_channels
    /\ pc # "idle" => work <= max_channels

\* Claim C8: one invocation of fetch_youtube_data issues remote requests for at
\* most maxChannels distinct channels.
C8_RequestsWithinCap ==
    (fn = "fetch_youtube_data" /\ pc # "idle") => Cardinality(reqChannels) <= max_channels

\* Claim C9 (a missing video list is recovered locally): when the search for a
\* channel yields no list, the invocation does not fail; the channel keeps
\* fetched_videos false and gets no video-list file.
C9_MissingListSkipped ==
    noneList # 0 =>
        /\ ended # "TypeError"
        /\ ~rosterFile[noneList].fetched_videos
        /\ listFile[noneList] = <<>>

\* Claim C10 (truncation invariant): every document passed to the index has a
\* title of at most 900 characters, a date of at most 250, authors of at most
\* 1000, an abstract of at most 4000, keywords of at most 1000 and a category
\* of at most 250.
C10_Truncated ==
    \A k \in 1..Len(inserted) :
        /\ Len(inserted[k].title) <= 900
        /\ Len(inserted[k].date) <= 250
        /\ Len(inserted[k].authors) <= 1000
        /\ Len(inserted[k].abstract) <= 4000
        /\ Len(inserted[k].keywords) <= 1000
        /\ Len(inserted[k].category) <= 250

\* Claim C19 (channel-level completion flag): the fetched_videos flag of a
\* channel is set in memory only when the loop over its video list is over, and
\* in every persisted state a channel with fetched_videos true has a video list
\* whose entries all have fetched_video true.
C19_CompletionFlag ==
    /\ pc = "videos_dump_roster" =>
            /\ v > Len(channel_videos)
            /\ \A k \in 1..Len(channel_videos) : channel_videos[k].fetched_video
    /\ \A c \in Channels :
            rosterFile[c].fetched_videos =>
                /\ listFile[c] # <<>>
                /\ \A k \in DOMAIN VideoFlags(listFile[c]) : VideoFlags(listFile[c])[k]

\* C19, its case: a channel with two videos has its fetched_videos flag in the
\* roster file.
C19_Witness ==
    \E c \in Channels :
        /\ rosterFile[c].fetched_videos
        /\ Len(VideoFlags(listFile[c])) >= 2

\* Claim C20 (per-channel stage order): in every persisted state a channel's
\* video list exists only if its fetched_statistics flag is true, a video has
\* fetched_video true only in an existing list, and fetched_videos is true only
\* if fetched_statistics is.
C20_StageOrder ==
    \A c \in Channels :
        /\ listFile[c] # <<>> => rosterFile[c].fetched_statistics
        /\ (\E k \in DOMAIN VideoFlags(listFile[c]) : VideoFlags(listFile[c])[k])
                => listFile[c] # <<>> /\ rosterFile[c].fetched_statistics
        /\ rosterFile[c].fetched_videos => rosterFile[c].fetched_statistics

\* C20, its case: after an invocation that was cut, a channel is between two
\* stages: its list exists, one video is flagged, another is not.
C20_Witness ==
    /\ pc = "idle"
    /\ ended \in {"quota", "crash"}
    /\ \E c \in Channels :
        /\ ~rosterFile[c].fetched_videos
        /\ \E k, n \in DOMAIN VideoFlags(listFile[c]) :
                VideoFlags(listFile[c])[k] /\ ~VideoFlags(listFile[c])[n]

\* The positions of the hits of a document in a list of hits, in order.
HitsOf(hits, id) ==
    LET Numbered == [k \in 1..Len(hits) |-> <<k, hits[k].entity.documentId>>]
        OfDocument(m) == m[2] = id
        found == SelectSeq(Numbered, OfDocument)
    IN [j \in 1..Len(found) |-> found[j][1]]

\* Claim C14 (grouping): group_by_document_id yields one group for each
\* documentId among the hits and no other; the score and the metadata of a group
\* are those of the first hit of the document; its contents are the contents of
\* the hits of the document, one for each hit, in the order of the hits.
C14_Grouping ==
    call.fn = "group_by_document_id" =>
        LET hits == call.results
        IN /\ DOMAIN result = { hits[k].entity.documentId : k \in DOMAIN hits }
           /\ \A id \in DOMAIN result :
                LET at == HitsOf(hits, id)
                    first == hits[at[1]]
                IN /\ result[id].score = first.score
                   /\ \A f \in {"title", "date", "authors", "abstract",
                                "keywords", "category"} :
                        result[id][f] = first.entity[f]
                   /\ result[id].contents =
                        [j \in 1..Len(at) |-> hits[at[j]].entity.content]

\* C14, its case: three hits, the first and the last of one document with
\* different records, and the first of them with the lower score.
C14_Witness ==
    /\ call.fn = "group_by_document_id"
    /\ Len(call.results) = 3
    /\ call.results[1].entity.documentId = call.results[3].entity.documentId
    /\ call.results[1].entity.documentId # call.results[2].entity.documentId
    /\ call.results[1].entity # call.results[3].entity
    /\ call.results[1].score < call.results[3].score
    /\ Len(result[call.results[1].entity.documentId].contents) = 2

\* The highest score among the hits of a document.
BestScore(hits, id) ==
    CHOOSE x \in Scores :
        /\ \E k \in DOMAIN hits : hits[k].entity.documentId = id /\ hits[k].score = x
        /\ \A k \in DOMAIN hits : hits[k].entity.documentId = id => hits[k].score <= x

\* The number of places of a list that hold a hit.
Count(hits, hit) == Cardinality({ k \in DOMAIN hits : hits[k] = hit })

\* Claim C15 (search order): search_documents returns the hits the index
\* returned, in whatever order, sorted by score from the highest to the lowest;
\* group_by_document_id applied to that keeps for each document the highest
\* score among its hits.
C15_SortedSearch ==
    /\ call.fn = "search_documents" =>
            /\ Len(result) = Len(call.results)
            /\ \A hit \in Hits : Count(result, hit) = Count(call.results, hit)
            /\ \A k \in 1..(Len(result) - 1) : result[k].score >= result[k + 1].score
    /\ (call.fn = "group_by_document_id" /\ previous # <<>>) =>
            \A id \in DOMAIN result :
                result[id].score = BestScore(previous[1].call.results, id)

\* C15, its case: the index returned two hits of one document, the lower score
\* first, and the results of the search were grouped.
C15_Witness ==
    /\ call.fn = "group_by_document_id"
    /\ previous # <<>>
    /\ \E k, n \in DOMAIN previous[1].call.results :
            /\ k < n
            /\ previous[1].call.results[k].entity.documentId
                    = previous[1].call.results[n].entity.documentId
            /\ previous[1].call.results[k].score < previous[1].call.results[n].score

\* Claim C16 (cleaning post-condition), as stated: whatever text it is given,
\* clean_description returns a text of letters, digits, spaces, newlines and
\* periods only, in which nothing matches a URL token (http..., www...), nothing
\* matches a timestamp, and no 30 characters in a row are free of whitespace.
C16_CleanOutput ==
    (call.fn = "clean_description" /\ call.description # None) =>
        /\ \A k \in DOMAIN result : Allowed(result[k])
        /\ \A p \in DOMAIN result : MatchEnd("url", result, p) = 0
        /\ \A p \in DOMAIN result : MatchEnd("timestamp", result, p) = 0
        /\ \A p \in DOMAIN result : MatchEnd("sequence", result, p) = 0

\* Claim C18 (identity): two calls of generate_document_id with the same title,
\* authors and date return the same digest, and two calls whose arguments differ
\* in exactly one of the three hash different strings.
C18_Identity ==
    (call.fn = "generate_document_id" /\ previous # <<>>) =>
        LET before == previous[1].call
            differing == { f \in {"title", "authors", "date"} : call[f] # before[f] }
        IN /\ differing = {} => result = previous[1].result
           /\ Cardinality(differing) = 1 => result[2] # previous[1].result[2]

\* C18, its case: two calls that differ in the date only, with a separator in
\* the title.
C18_Witness ==
    /\ call.fn = "generate_document_id"
    /\ previous # <<>>
    /\ call.title = previous[1].call.title
    /\ call.authors = previous[1].call.authors
    /\ call.date # previous[1].call.date
    /\ call.title = <<"a", "-", "b">>

\* The documents this call has stored in the index: those it passed to
\* collection.insert that neither were printed as failed nor made it raise.
Stored == Len(inserted) - Len(reported) - (IF raised = "insert" THEN 1 ELSE 0)

\* The records the index held when this call started.
HeldBefore == SubSeq(collection, 1, Len(collection) - Stored)

\* Claim C11 (idempotent re-ingestion), as stated: when the same document has
\* been ingested into the same partition a second time, every insert of both
\* calls having succeeded, the index holds for it the records it held after the
\* first ingestion: the same records, none of them twice.
C11_Idempotent ==
    (/\ ipc = "idle"
     /\ ingestions = 2
     /\ raised = "none"
     /\ reported = <<>>
     /\ Len(HeldBefore) = Len(docslatex)) =>
        /\ { collection[k] : k \in DOMAIN collection }
                = { HeldBefore[k] : k \in DOMAIN HeldBefore }
        /\ Len(collection) = Len(HeldBefore)

\* Claim C12 (per-chunk isolation), as stated: a call that has reached the
\* loop over the chunks attempts one insert for every chunk the splitter
\* returned, in the order of the chunks, and a failed insert does not keep the
\* inserts of the later chunks from being attempted.
C12_EveryChunkAttempted ==
    (ipc = "idle" /\ ingestions > 0 /\ raised \notin {"KeyError", "TypeError"}) =>
        /\ Len(inserted) = Len(docslatex)
        /\ \A k \in DOMAIN inserted : inserted[k].chunk = docslatex[k]

\* Claim C13 (identity from metadata): every document a call passes to the
\* index carries the same documentId, which is generate_document_id of the
\* title, authors and date after the sentinel has replaced a missing value and
\* after cleaning and truncation, not of the values of the entry.
C13_IdentityOfValues ==
    inserted # <<>> =>
        LET title == Bounded(OrUnknown(Field(entry, "title")), TitleCleanOver, TitleMax)
            authors ==
                Bounded(OrUnknown(Field(entry, "authors")), AuthorCleanOver, AuthorMax)
            date == Bounded(OrUnknown(Field(entry, "date")), DateCleanOver, DateMax)
            identity == generate_document_id(title, authors, date)
        IN \A k \in DOMAIN inserted : inserted[k].documentId = identity

\* C13, its case: two documents were passed to the index for an entry whose
\* title is longer than the title that is kept; their documentId is that of the
\* title as cut.
C13_Witness ==
    /\ Len(inserted) = 2
    /\ Len(Field(entry, "title")) > TitleMax
    /\ inserted[1].documentId = inserted[2].documentId
    /\ inserted[2].documentId[2] =
            Slice(clean_description(entry["title"]), TitleMax)
                \o <<"-">> \o entry["authors"] \o <<"-">> \o entry["date"]

\* Claim C17 (null-safe cleaning), as stated: for an entry whose content is
\* None the cleaning step does not raise, whatever the partition: the cleaner
\* returns the empty text.
C17_NullSafeCleaning ==
    ("content" \in DOMAIN entry /\ entry["content"] = None /\ ingestions > 0) =>
        /\ raised # "TypeError"
        /\ Content(entry, partition_name) = <<>>

\* Claim C28 (identity key injectivity), as stated: two calls of
\* generate_document_id whose (title, authors, date) are not equal hash
\* different strings.
C28_Injective ==
    (call.fn = "generate_document_id" /\ previous # <<>>) =>
        LET before == previous[1].call
        IN <<call.title, call.authors, call.date>>
                # <<before.title, before.authors, before.date>>
            => result[2] # previous[1].result[2]

\* Claim C21 (persist before proceed): whenever the harvest loop is about to
\* issue a remote request, every statistics payload and every video payload it
\* has fetched is in the dataset file and has its flag in the roster file or in
\* the video-list file.
C21_PersistBeforeProceed ==
    pc \in RequestSteps =>
        /\ unflagged = {}
        /\ dataFile = df
        /\ rosterFile = ranked_channels
        /\ pc = "get_video" => listFile[i] = <<channel_videos>>

\* C21, its case: the second video of a channel is about to be requested; the
\* payload of the first is in the dataset file and its flag in the list file.
C21_Witness ==
    /\ pc = "get_video"
    /\ v = 2
    /\ Len(Videos(dataFile, i)) = 1
    /\ VideoFlags(listFile[i])[1]
    /\ rosterFile[i].fetched_statistics

\* Claim C25 (error payloads), as stated: an answer of the video-detail call
\* that carries an error envelope other than quota exhaustion is not appended
\* to the channel's videos list, and a video has fetched_video true only with a
\* successful payload in that list.
C25_ErrorNotStored ==
    \A c \in Channels :
        /\ \A k \in DOMAIN Videos(dataFile, c) : Videos(dataFile, c)[k].kind = "ok"
        /\ listFile[c] # <<>> =>
                \A n \in DOMAIN listFile[c][1] :
                    listFile[c][1][n].fetched_video =>
                        \E k \in DOMAIN Videos(dataFile, c) :
                            /\ Videos(dataFile, c)[k].id = listFile[c][1][n].VideoID
                            /\ Videos(dataFile, c)[k].kind = "ok"

\* Claim C26 (no duplicate video payloads), as stated: in the dataset file, no
\* two entries of a channel's videos list are payloads of the same video id.
C26_NoDuplicatePayload ==
    \A c \in Channels :
        \A k, n \in DOMAIN Videos(dataFile, c) :
            Videos(dataFile, c)[k].id = Videos(dataFile, c)[n].id => k = n

\* Claim C27 (flag implies data): in every persisted state a channel with
\* fetched_statistics true has a cell in the dataset file and a video with
\* fetched_video true has an entry in the videos list of its channel's cell; no
\* invocation fails reading the cell of a channel the dataset does not hold.
C27_FlagImpliesData ==
    /\ \A c \in Channels :
        /\ rosterFile[c].fetched_statistics => dataFile[c] # <<>>
        /\ listFile[c] # <<>> =>
                \A n \in DOMAIN listFile[c][1] :
                    listFile[c][1][n].fetched_video =>
                        \E k \in DOMAIN Videos(dataFile, c) :
                            Videos(dataFile, c)[k].id = listFile[c][1][n].VideoID
    /\ ended # "KeyError"
    /\ pc = "get_video" => df[i] # <<>>

\* C27, its case: after an invocation was cut between the write of the dataset
\* and the write of a flag, a video is flagged in its list file and another
\* has its payload in the dataset file without its flag.
C27_Witness ==
    /\ pc = "idle"
    /\ ended = "crash"
    /\ \E c \in Channels :
        /\ rosterFile[c].fetched_statistics
        /\ \E n \in DOMAIN VideoFlags(listFile[c]) : VideoFlags(listFile[c])[n]
        /\ Len(Videos(dataFile, c)) >
                Cardinality({n \in DOMAIN VideoFlags(listFile[c]) : VideoFlags(listFile[c])[n]})

\* The number of items of kind youtube#video of a page.
VideoItems(items) ==
    Cardinality({k \in DOMAIN items : items[k] = "youtube#video"})

\* Claim C22 (pagination): against a remote that serves a finite chain of
\* search pages, get_channel_videos_list comes to its end. It starts with no
\* id; every page it reads adds the ids of all the video items of that page
\* after the ids collected before (the n-th id is that of the n-th video item),
\* none is dropped; it goes on to the next page exactly when the page carries a
\* nextPageToken, and returns the ids collected when a page carries none.
C22_Pagination ==
    /\ [](pc = "get_list" /\ page = 0 => video_ids = <<>>)
    /\ [][pc = "get_list" =>
            /\ pc' \in {"get_list", "write_list"}
            /\ page' = page + 1
            /\ data' # <<>>
            /\ video_ids' =
                  [n \in 1..(Len(video_ids) + VideoItems(data'[1].items)) |-> n]
            /\ (pc' = "get_list") = data'[1].nextPageToken]_vars
    /\ (pc = "get_list" ~> pc = "write_list")

\* C22, its case: two pages were read, each with a video item, and the call
\* returns two ids.
C22_Witness ==
    /\ pc = "write_list"
    /\ page = 2
    /\ VideoItems(data[1].items) = 1
    /\ Len(video_ids) = 2

\* Every channel of the roster has both flags true in the roster file.
AllFetched ==
    \A c \in Channels :
        rosterFile[c].fetched_statistics /\ rosterFile[c].fetched_videos

\* Claim C24 (harvest progress), as stated: when process_channels is invoked
\* again and again against a remote that returns no errors, whatever
\* max_channels is, eventually every channel of the roster has
\* fetched_statistics true and fetched_videos true.
C24_Progress == <>AllFetched

\* Claim C23 (chunk text bound), as stated: every document passed to the index
\* has a content of at most 512 characters, and its vector is the embedding of
\* that content, also when the splitter returned a chunk longer than 512
\* characters.
C23_ChunkTextBound ==
    \A k \in DOMAIN inserted :
        /\ Len(inserted[k].content) <= 512
        /\ inserted[k].content_vector = encode(inserted[k].content)

====
